---- MODULE Spec2Model ----
(***************************************************************************)
(* Model of breach_checker.py (class DataBreachChecker).                   *)
(*                                                                         *)
(* Two specifications share the module:                                    *)
(*   NormSpec - the response-normalisation functions (the locator inside   *)
(*              _display_breach_results and _flatten_list) applied to a    *)
(*              bounded universe of decoded JSON payloads;                 *)
(*   Spec     - the GUI: user actions, the request threads started by      *)
(*              _check_breach, and the Tk "after" callbacks run by the     *)
(*              main loop.  LiveSpec is Spec with the scheduling fairness.  *)
(*                                                                         *)
(* A decoded JSON value (a Python object) is a tagged tuple:               *)
(*   <<"str", s>>  <<"int", n>>  <<"bool", b>>  <<"null">>                 *)
(*   <<"list", <<v1, ..., vn>> >>                                          *)
(*   <<"dict", << <<k1, v1>>, ..., <<kn, vn>> >> >>   (insertion order)    *)
(***************************************************************************)
EXTENDS Integers, Sequences, FiniteSets, TLC

VARIABLES
    \* ---- NormSpec: one normalisation of one payload
    n_data,        \* the decoded payload handed to _display_breach_results
    n_pc,          \* "start", "located", "raised", "done", "again"
    n_cand,        \* breaches_data at line 402 (<<"null">> is Python's None)
    n_list,        \* breach_list
    n_list2,       \* _flatten_list applied to breach_list itself
    \* ---- Spec: the application
    status,        \* status_label: "initial", "", "safe", "warning", "error"
    count_label,   \* count_label: [kind, n, msg]
    list_children, \* the breach labels in breach_list_frame, in row order
    list_visible,  \* breach_list_frame is gridded
    progress,      \* progress_bar is gridded and running
    button,        \* check_button state: "normal" or "disabled"
    nchecks,       \* number of request threads started so far
    thread,        \* request id -> position of its thread in _api_request
    after,         \* Tk's queue of after(0, ...) callbacks, oldest first, each
                   \* with what its closure holds: [kind, req, data, msg]
    sched,         \* request id -> the callbacks its thread has scheduled, in
                   \* order, each as "result" or "hide"
    warn_list,     \* breach_list of the result that set the status shown, <<>>
                   \* when that status is not the warning
    lastEvent      \* the handler that ran last: [op, req, data]; a rejected check
                   \* is the messagebox warning it showed

nvars == <<n_data, n_pc, n_cand, n_list, n_list2>>
gvars == <<status, count_label, list_children, list_visible,
           progress, button, nchecks, thread, after, sched, warn_list, lastEvent>>
vars == <<nvars, gvars>>

(***************************************************************************)
(* Python values                                                           *)
(***************************************************************************)
PStr(s) == <<"str", s>>
PInt(n) == <<"int", n>>
PBool(b) == <<"bool", b>>
PNone == <<"null">>
PList(s) == <<"list", s>>
PDict(s) == <<"dict", s>>

IsStr(v) == v[1] = "str"
IsList(v) == v[1] = "list"
IsDict(v) == v[1] = "dict"
IsNone(v) == v[1] = "null"

\* key in d
HasKey(d, k) == \E i \in 1..Len(d[2]) : d[2][i][1] = k

\* d[key], for a key that is present
GetItem(d, k) ==
    LET i == CHOOSE j \in 1..Len(d[2]) : d[2][j][1] = k IN d[2][i][2]

\* d.get(key): None when the key is absent
DictGet(d, k) == IF HasKey(d, k) THEN GetItem(d, k) ELSE PNone

\* bool(v): the truth value the "or" chain and "if name:" test
Truthy(v) ==
    CASE v[1] = "str" -> v[2] /= ""
      [] v[1] = "int" -> v[2] /= 0
      [] v[1] = "bool" -> v[2]
      [] v[1] = "null" -> FALSE
      [] v[1] = "list" -> Len(v[2]) > 0
      [] v[1] = "dict" -> Len(v[2]) > 0

RECURSIVE PyRepr(_), ReprItems(_, _), ReprPairs(_, _)

\* repr(v), as str() of a container prints its members
PyRepr(v) ==
    CASE v[1] = "str" -> "'" \o v[2] \o "'"
      [] v[1] = "int" -> ToString(v[2])
      [] v[1] = "bool" -> IF v[2] THEN "True" ELSE "False"
      [] v[1] = "null" -> "None"
      [] v[1] = "list" -> "[" \o ReprItems(v[2], 1) \o "]"
      [] v[1] = "dict" -> "{" \o ReprPairs(v[2], 1) \o "}"

ReprItems(s, i) ==
    IF i > Len(s) THEN ""
    ELSE PyRepr(s[i]) \o (IF i < Len(s) THEN ", " ELSE "") \o ReprItems(s, i + 1)

ReprPairs(s, i) ==
    IF i > Len(s) THEN ""
    ELSE "'" \o s[i][1] \o "': " \o PyRepr(s[i][2])
         \o (IF i < Len(s) THEN ", " ELSE "") \o ReprPairs(s, i + 1)

\* str(v): a string is itself, everything else prints as its repr
PyStr(v) == IF v[1] = "str" THEN v[2] ELSE PyRepr(v)

(***************************************************************************)
(* _flatten_list                                                           *)
(***************************************************************************)
\* the fields probed for a record's name, in the order of the "or" chain
NameFields == <<"breach", "name", "domain", "site", "Name", "Breach", "title">>

RECURSIVE OrChainNonNull(_, _)
\* OrChain with "is not None" in place of truth: the first non-null field
OrChainNonNull(item, i) ==
    IF i > Len(NameFields) THEN PNone
    ELSE IF ~IsNone(DictGet(item, NameFields[i])) THEN DictGet(item, NameFields[i])
    ELSE OrChainNonNull(item, i + 1)

RECURSIVE OrChain(_, _)
\* item.get(f1) or item.get(f2) or ... or None, from field i on
OrChain(item, i) ==
    IF i > Len(NameFields) THEN PNone
    ELSE IF Truthy(DictGet(item, NameFields[i])) THEN DictGet(item, NameFields[i])
    ELSE OrChain(item, i + 1)

\* the dict branch of the item loop: one entry per record
RecordEntry(item) ==
    LET name == OrChain(item, 1) IN
    IF Truthy(name) THEN PyStr(name) ELSE PyStr(item)

RECURSIVE FlattenList(_), FlattenItems(_, _, _), FlattenValues(_, _, _)

\* FlattenItems that takes only the strings of a nested list, one level deep
FlattenItemsOneLevel(items, i, result) ==
    IF i > Len(items) THEN result
    ELSE LET item == items[i]
             inner == IF IsList(item)
                      THEN SelectSeq(item[2], LAMBDA e : IsStr(e)) ELSE <<>> IN
         FlattenItems(items, i + 1,
            CASE IsStr(item) -> Append(result, item[2])
              [] IsList(item) -> result \o [k \in 1..Len(inner) |-> inner[k][2]]
              [] IsDict(item) -> Append(result, RecordEntry(item))
              [] OTHER -> IF ~IsNone(item) THEN Append(result, PyStr(item))
                          ELSE result)

\* the loop "for item in data" from item i on, result being what was appended
FlattenItems(items, i, result) ==
    IF i > Len(items) THEN result
    ELSE LET item == items[i] IN
         FlattenItems(items, i + 1,
            CASE IsStr(item) -> Append(result, item[2])
              [] IsList(item) -> result \o FlattenList(item)
              [] IsDict(item) -> Append(result, RecordEntry(item))
              [] OTHER -> IF ~IsNone(item) THEN Append(result, PyStr(item))
                          ELSE result)

\* the loop "for key, value in data.items()" from pair i on
FlattenValues(pairs, i, result) ==
    IF i > Len(pairs) THEN result
    ELSE LET value == pairs[i][2] IN
         FlattenValues(pairs, i + 1,
            CASE IsList(value) -> result \o FlattenList(value)
              [] IsStr(value) -> Append(result, value[2])
              [] OTHER -> result)

FlattenList(data) ==
    CASE IsStr(data) -> <<data[2]>>
      [] IsList(data) -> FlattenItems(data[2], 1, <<>>)
      [] IsDict(data) -> FlattenValues(data[2], 1, <<>>)
      [] OTHER -> <<>>

(***************************************************************************)
(* The locator: the try block of _display_breach_results                   *)
(***************************************************************************)
PossibleKeys == <<"breaches", "Breaches", "BREACHES",
                  "breaches_details", "BreachesDetails",
                  "ExposedBreaches", "exposed_breaches",
                  "data", "Data", "results", "Results">>

NestedKeys == <<"breaches_details", "breaches", "Breaches">>

RECURSIVE FirstKey(_, _, _)
\* for key in keys: if key in d: breaches_data = d[key]; break
\* (breaches_data stays None when the loop ends without a hit)
FirstKey(d, keys, i) ==
    IF i > Len(keys) THEN PNone
    ELSE IF HasKey(d, keys[i]) THEN GetItem(d, keys[i])
    ELSE FirstKey(d, keys, i + 1)

\* "if breaches_data is None: if 'ExposedBreaches' in data: ..."
NestedProbe(data, found) ==
    IF IsNone(found) /\ HasKey(data, "ExposedBreaches")
    THEN LET exposed == GetItem(data, "ExposedBreaches") IN
         IF IsDict(exposed) THEN FirstKey(exposed, NestedKeys, 1)
         ELSE IF IsList(exposed) THEN exposed
         ELSE found
    ELSE found

RECURSIVE LastListValue(_, _)
\* FirstListValue without the break: the last list wins
LastListValue(pairs, i) ==
    IF i > Len(pairs) THEN PNone
    ELSE IF IsList(pairs[i][2]) /\ IsNone(LastListValue(pairs, i + 1)) THEN pairs[i][2]
    ELSE LastListValue(pairs, i + 1)

RECURSIVE FirstListValue(_, _)
\* for key, value in data.items(): if isinstance(value, list): ...; break
FirstListValue(pairs, i) ==
    IF i > Len(pairs) THEN PNone
    ELSE IF IsList(pairs[i][2]) THEN pairs[i][2]
    ELSE FirstListValue(pairs, i + 1)

\* "if breaches_data is None: for key, value in data.items(): ..."
LastResort(data, found) ==
    IF IsNone(found) THEN FirstListValue(data[2], 1) ELSE found

\* Locate that takes a payload that is no mapping as the candidate itself
LocateAnyAsCandidate(data) ==
    IF ~IsDict(data) THEN [raised |-> FALSE, value |-> data]
    ELSE [raised |-> FALSE,
          value |-> LastResort(data,
                       NestedProbe(data, FirstKey(data, PossibleKeys, 1)))]

\* breaches_data when line 402 is reached, or the exception on the way.
\* A payload that is neither list nor dict always raises: "key in data" is
\* a TypeError on a number, a boolean or None; on a string it is a substring
\* test, and then either data[key] is a TypeError or, no key being a
\* substring, data.items() is an AttributeError.
Locate(data) ==
    IF IsList(data) THEN [raised |-> FALSE, value |-> data]
    ELSE IF ~IsDict(data) THEN [raised |-> TRUE, value |-> PNone]
    ELSE [raised |-> FALSE,
          value |-> LastResort(data,
                       NestedProbe(data, FirstKey(data, PossibleKeys, 1)))]

\* breach_list at line 409: "except Exception: pass" leaves it empty
Extract(data) ==
    LET loc == Locate(data) IN
    IF loc.raised THEN <<>>
    ELSE IF ~IsNone(loc.value) THEN FlattenList(loc.value)
    ELSE <<>>

(***************************************************************************)
(* The payloads of NormSpec                                                *)
(***************************************************************************)
MaxNodes == 5    \* nodes (lists and leaves) of a nested list of strings
MaxLen == 2      \* length of a list of scalars
MaxFields == 2   \* entries of a breach record
MaxKeys == 2     \* entries of a top-level mapping

StrLeaves == {PStr("A"), PStr("B"), PStr("")}
Scalars == StrLeaves \cup {PInt(0), PInt(5), PBool(TRUE), PBool(FALSE), PNone}

RECURSIVE StrListsOfSize(_), StrSeqsOfSize(_)
\* the nested lists of strings with exactly n nodes
StrListsOfSize(n) ==
    IF n < 1 THEN {} ELSE {PList(s) : s \in StrSeqsOfSize(n - 1)}
\* the sequences of strings and nested lists with m nodes in all
StrSeqsOfSize(m) ==
    IF m = 0 THEN {<<>>}
    ELSE UNION {{<<h>> \o t :
                    h \in (IF k = 1 THEN StrLeaves ELSE {}) \cup StrListsOfSize(k),
                    t \in StrSeqsOfSize(m - k)} : k \in 1..m}

NestedStrLists == UNION {StrListsOfSize(n) : n \in 1..MaxNodes}

ScalarLists == {PList(s) : s \in UNION {[1..n -> Scalars] : n \in 0..MaxLen}}

\* the mappings of at most n entries with distinct keys, in every order
DictsOver(keys, values, n) ==
    {PDict(s) : s \in UNION {{t \in [1..m -> keys \X values] :
                                 \A i, j \in 1..m : i /= j => t[i][1] /= t[j][1]}
                             : m \in 0..n}}

RecKeys == {NameFields[i] : i \in 1..Len(NameFields)} \cup {"foo"}
RecValues == {PStr("A"), PStr(""), PInt(0), PBool(TRUE), PNone}
Records == DictsOver(RecKeys, RecValues, MaxFields)
\* a record alone, and a record after a string
RecordLists == {PList(before \o <<r>>) : before \in {<<>>, <<PStr("B")>>},
                                         r \in Records}

ListAB == PList(<<PStr("A"), PStr("B")>>)
NestedMap == PDict(<< <<"breaches_details", PList(<<PStr("C")>>)>>,
                      <<"extra", PList(<<PStr("Z")>>)>> >>)
LocKeys == {PossibleKeys[i] : i \in 1..Len(PossibleKeys)}
           \cup {"unknownKey", "other"}
LocValues == {ListAB, PList(<<>>), PStr("S"), PNone, NestedMap}
DictPayloads == DictsOver(LocKeys, LocValues, MaxKeys)

\* n_data is one of the payloads
IsPayload(v) ==
    \/ v \in NestedStrLists
    \/ v \in ScalarLists
    \/ v \in RecordLists
    \/ v \in DictPayloads
    \/ v \in Scalars

(***************************************************************************)
(* NormSpec: locate, then flatten, then flatten the flat result again      *)
(***************************************************************************)
\* a list of Python strings as a payload node
AsList(names) == PList([i \in 1..Len(names) |-> PStr(names[i])])

NLocate ==
    /\ n_pc = "start"
    /\ LET loc == Locate(n_data) IN
         /\ n_cand' = loc.value
         /\ n_pc' = IF loc.raised THEN "raised" ELSE "located"
    /\ UNCHANGED <<n_data, n_list, n_list2, gvars>>

\* "except Exception: pass"
NCatch ==
    /\ n_pc = "raised"
    /\ n_list' = <<>>
    /\ n_pc' = "done"
    /\ UNCHANGED <<n_data, n_cand, n_list2, gvars>>

\* "if breaches_data is not None: breach_list = self._flatten_list(...)"
NFlatten ==
    /\ n_pc = "located"
    /\ n_list' = IF ~IsNone(n_cand) THEN FlattenList(n_cand) ELSE <<>>
    /\ n_pc' = "done"
    /\ UNCHANGED <<n_data, n_cand, n_list2, gvars>>

NAgain ==
    /\ n_pc = "done"
    /\ n_list2' = FlattenList(AsList(n_list))
    /\ n_pc' = "again"
    /\ UNCHANGED <<n_data, n_cand, n_list, gvars>>

(***************************************************************************)
(* The application: email entry and validation                             *)
(***************************************************************************)
MaxChecks == 2   \* request threads started in one run

\* the entry's text is a sequence of one-character strings
UpperCase == <<"A", "B", "C", "D", "E", "F", "G", "H", "I", "J", "K", "L", "M",
               "N", "O", "P", "Q", "R", "S", "T", "U", "V", "W", "X", "Y", "Z">>
LowerCase == <<"a", "b", "c", "d", "e", "f", "g", "h", "i", "j", "k", "l", "m",
               "n", "o", "p", "q", "r", "s", "t", "u", "v", "w", "x", "y", "z">>
Digits == {"0", "1", "2", "3", "4", "5", "6", "7", "8", "9"}
Whitespace == {" ", "\t", "\n", "\r"}

IsUpper(c) == \E i \in 1..Len(UpperCase) : UpperCase[i] = c
IsLetter(c) == IsUpper(c) \/ \E i \in 1..Len(LowerCase) : LowerCase[i] = c

RECURSIVE LStrip(_), RStrip(_)
LStrip(s) == IF s /= <<>> /\ Head(s) \in Whitespace THEN LStrip(Tail(s)) ELSE s
RStrip(s) ==
    IF s /= <<>> /\ s[Len(s)] \in Whitespace
    THEN RStrip(SubSeq(s, 1, Len(s) - 1)) ELSE s

\* str.strip()
Strip(s) == RStrip(LStrip(s))

\* str.lower()
Lower(s) ==
    [k \in 1..Len(s) |->
        IF IsUpper(s[k])
        THEN LowerCase[CHOOSE i \in 1..Len(UpperCase) : UpperCase[i] = s[k]]
        ELSE s[k]]

\* re.match(r'^[a-zA-Z0-9._%+-]+@[a-zA-Z0-9.-]+\.[a-zA-Z]{2,}$', email)
ValidateEmail(email) ==
    \E i, j \in 1..Len(email) :
        /\ email[i] = "@" /\ i > 1
        /\ email[j] = "." /\ j > i + 1
        /\ Len(email) - j >= 2
        /\ \A k \in 1..(i - 1) :
              IsLetter(email[k]) \/ email[k] \in Digits
              \/ email[k] \in {".", "_", "%", "+", "-"}
        /\ \A k \in (i + 1)..(j - 1) :
              IsLetter(email[k]) \/ email[k] \in Digits \/ email[k] \in {".", "-"}
        /\ \A k \in (j + 1)..Len(email) : IsLetter(email[k])

\* what the user may type into the entry
EntryInputs == { <<>>,
                 <<"b", "o", "b", "@", "x">>,
                 <<" ", "A", "m", "y", "@", "X", ".", "i", "o">> }

\* self.email_entry.get().strip().lower() of each input
Cleaned == [raw \in EntryInputs |-> Lower(Strip(raw))]

\* self._validate_email(email) of each cleaned input
Validated == [email \in {Cleaned[raw] : raw \in EntryInputs} |-> ValidateEmail(email)]

\* the bodies a status-200 response may decode to
GuiPayloads == { PInt(5), PStr("data"), PBool(TRUE), PNone, PDict(<<>>), ListAB }

Requests == 1..MaxChecks

NoText == [kind |-> "empty", n |-> 0, msg |-> ""]
SafeText == [kind |-> "safe", n |-> 0, msg |-> ""]
CountText(n) == [kind |-> "count", n |-> n, msg |-> ""]
ErrorText(msg) == [kind |-> "error", n |-> 0, msg |-> msg]

\* the row built for breach number i: num_label and breach_label
ItemRow(i, breach) == [num |-> ToString(i) \o ".", text |-> "(red) " \o breach]

(***************************************************************************)
(* Initial states                                                          *)
(***************************************************************************)
GInit ==
    /\ status = "initial"
    /\ count_label = NoText
    /\ list_children = <<>>
    /\ list_visible = FALSE
    /\ progress = FALSE
    /\ button = "normal"
    /\ nchecks = 0
    /\ thread = [r \in Requests |-> [pc |-> "idle", email |-> <<>>]]
    /\ after = <<>>
    /\ sched = [r \in Requests |-> <<>>]
    /\ warn_list = <<>>
    /\ lastEvent = [op |-> "init", req |-> 0, data |-> PNone]

NIdle ==
    /\ n_cand = PNone
    /\ n_list = <<>>
    /\ n_list2 = <<>>

Init == GInit /\ NIdle /\ n_data = PNone /\ n_pc = "idle"

NormInit == GInit /\ NIdle /\ IsPayload(n_data) /\ n_pc = "start"

(***************************************************************************)
(* User actions                                                            *)
(***************************************************************************)
\* _check_breach, with _clear_results and _show_loading(True); entry is what
\* email_entry.get() returns, the text the user typed before
CheckBreach(entry) ==
    LET email == Cleaned[entry] IN
    IF email = <<>> THEN
        /\ lastEvent' = [op |-> "warning_empty", req |-> 0, data |-> PNone]
        /\ UNCHANGED <<status, count_label, list_children, list_visible,
                       progress, button, nchecks, thread, after, sched,
                       warn_list, nvars>>
    ELSE IF ~Validated[email] THEN
        /\ lastEvent' = [op |-> "warning_invalid", req |-> 0, data |-> PNone]
        /\ UNCHANGED <<status, count_label, list_children, list_visible,
                       progress, button, nchecks, thread, after, sched,
                       warn_list, nvars>>
    ELSE
        /\ nchecks < MaxChecks
        /\ status' = ""
        /\ count_label' = NoText
        /\ list_children' = <<>>
        /\ list_visible' = FALSE
        /\ progress' = TRUE
        /\ button' = "disabled"
        /\ nchecks' = nchecks + 1
        /\ thread' = [thread EXCEPT ![nchecks + 1] =
                         [pc |-> "request", email |-> email]]
        /\ warn_list' = <<>>
        /\ lastEvent' = [op |-> "check", req |-> nchecks + 1, data |-> PNone]
        /\ UNCHANGED <<after, sched, nvars>>

\* check_button's command: a disabled button ignores the click
ClickButton == button = "normal" /\ \E entry \in EntryInputs : CheckBreach(entry)

\* email_entry.bind("<Return>", ...): the entry is never disabled
PressReturn == \E entry \in EntryInputs : CheckBreach(entry)

(***************************************************************************)
(* The request thread: _api_request                                        *)
(***************************************************************************)
\* root.after(0, callback) by request r's thread
Schedule(r, kind, data, msg) ==
    /\ after' = Append(after, [kind |-> kind, req |-> r, data |-> data,
                               msg |-> msg])
    /\ sched' = [sched EXCEPT ![r] =
                    Append(@, IF kind = "hide" THEN "hide" ELSE "result")]

ThreadUnchanged ==
    UNCHANGED <<status, count_label, list_children,
                list_visible, progress, button, nchecks, warn_list,
                lastEvent, nvars>>

\* requests.get returns, or raises, and the matching branch schedules its
\* callback; the thread is then at "finally", or still inside an
\* "except ... as e" clause whose callback reads e
ApiOutcome(r, data, cb, msg, pc) ==
    /\ thread[r].pc = "request"
    /\ Schedule(r, cb, data, msg)
    /\ thread' = [thread EXCEPT ![r].pc = pc]
    /\ ThreadUnchanged

\* status 200 and a body that decodes
Api200(r) ==
    \E data \in GuiPayloads : ApiOutcome(r, data, "breach", "", "finally")

Api404(r) == ApiOutcome(r, PNone, "safe", "", "finally")

ApiOtherStatus(r) == ApiOutcome(r, PNone, "error", "status", "finally")

ApiConnectionError(r) ==
    ApiOutcome(r, PNone, "error", "connection", "finally")

ApiTimeout(r) == ApiOutcome(r, PNone, "error", "timeout", "finally")

\* any other RequestException (requests' JSONDecodeError of a status-200
\* body that does not decode is one)
ApiRequestException(r) ==
    ApiOutcome(r, PNone, "error", "network", "except")

\* any other Exception (a ValueError of response.json() is one)
ApiException(r) ==
    ApiOutcome(r, PNone, "error", "unexpected", "except")

\* ApiLeaveExcept of a handler that returns: no hide-loading is scheduled
ApiLeaveExceptAndReturn(r) ==
    /\ thread[r].pc = "except"
    /\ thread' = [thread EXCEPT ![r].pc = "done"]
    /\ UNCHANGED <<after, sched>>
    /\ ThreadUnchanged

\* leaving "except ... as e": Python unbinds e
ApiLeaveExcept(r) ==
    /\ thread[r].pc = "except"
    /\ thread' = [thread EXCEPT ![r].pc = "finally"]
    /\ UNCHANGED <<after, sched>>
    /\ ThreadUnchanged

\* finally: root.after(0, lambda: self._show_loading(False))
ApiFinally(r) ==
    /\ thread[r].pc = "finally"
    /\ Schedule(r, "hide", PNone, "")
    /\ thread' = [thread EXCEPT ![r].pc = "done"]
    /\ ThreadUnchanged

ThreadStep(r) ==
    \/ Api200(r)
    \/ Api404(r)
    \/ ApiOtherStatus(r)
    \/ ApiConnectionError(r)
    \/ ApiTimeout(r)
    \/ ApiRequestException(r)
    \/ ApiException(r)
    \/ ApiLeaveExcept(r)
    \/ ApiFinally(r)

(***************************************************************************)
(* The main loop runs the oldest "after" callback                          *)
(***************************************************************************)
\* the callback leaves the queue and runs as handler op
Run(op) ==
    /\ after /= <<>>
    /\ after' = Tail(after)
    /\ lastEvent' = [op |-> op, req |-> Head(after).req,
                      data |-> Head(after).data]
    /\ UNCHANGED <<nchecks, thread, sched, nvars>>

\* _display_breach_results(data)
DisplayBreachResults ==
    /\ after /= <<>> /\ Head(after).kind = "breach"
    /\ Run("display_breach_results")
    /\ LET breach_list == Extract(Head(after).data)
           breach_count == Len(breach_list) IN
       IF breach_count > 0 THEN
           /\ status' = "warning"
           /\ count_label' = CountText(breach_count)
           /\ list_visible' = TRUE
           /\ list_children' = [i \in 1..breach_count |->
                                   ItemRow(i, breach_list[i])]
           /\ warn_list' = breach_list
       ELSE
           /\ status' = "safe"
           /\ count_label' = SafeText
           /\ warn_list' = <<>>
           /\ UNCHANGED <<list_visible, list_children>>
    /\ UNCHANGED <<progress, button>>

\* _display_safe_result()
DisplaySafeResult ==
    /\ after /= <<>> /\ Head(after).kind = "safe"
    /\ Run("display_safe_result")
    /\ status' = "safe"
    /\ count_label' = SafeText
    /\ warn_list' = <<>>
    /\ UNCHANGED <<list_visible, list_children, progress, button>>

\* whether the lambda can still read what it closes over: e is bound only
\* while the thread is inside the except clause
ClosureReadable(cb) ==
    cb.msg \in {"network", "unexpected"} => thread[cb.req].pc = "except"

\* lambda: self._display_error(message)
DisplayError ==
    /\ after /= <<>> /\ Head(after).kind = "error"
    /\ ClosureReadable(Head(after))
    /\ Run("display_error")
    /\ status' = "error"
    /\ count_label' = ErrorText(Head(after).msg)
    /\ warn_list' = <<>>
    /\ UNCHANGED <<list_visible, list_children, progress, button>>

\* the lambda raises NameError on the unbound e: Tk reports it, nothing is shown
ErrorCallbackRaises ==
    /\ after /= <<>> /\ Head(after).kind = "error"
    /\ ~ClosureReadable(Head(after))
    /\ Run("callback_raised")
    /\ UNCHANGED <<status, count_label, list_visible, list_children, warn_list,
                   progress, button>>

\* lambda: self._show_loading(False)
HideLoading ==
    /\ after /= <<>> /\ Head(after).kind = "hide"
    /\ Run("hide_loading")
    /\ progress' = FALSE
    /\ button' = "normal"
    /\ UNCHANGED <<status, count_label, list_visible, list_children, warn_list>>

MainLoop ==
    \/ DisplayBreachResults
    \/ DisplaySafeResult
    \/ DisplayError
    \/ ErrorCallbackRaises
    \/ HideLoading

(***************************************************************************)
(* Specifications                                                          *)
(***************************************************************************)
Next ==
    \/ ClickButton
    \/ PressReturn
    \/ \E r \in Requests : ThreadStep(r)
    \/ MainLoop

Spec == Init /\ [][Next]_vars

MaxLiveChecks == 1   \* request threads started in one run of LiveSpec

\* Next, of a user who starts at most MaxLiveChecks checks
LiveNext ==
    \/ ClickButton /\ nchecks' <= MaxLiveChecks
    \/ PressReturn /\ nchecks' <= MaxLiveChecks
    \/ \E r \in Requests : ThreadStep(r)
    \/ MainLoop

\* the operating system runs every started thread and Tk's main loop runs
\* every queued callback; the user owes nothing
LiveSpec ==
    /\ Init /\ [][LiveNext]_vars
    /\ \A r \in Requests : WF_vars(ThreadStep(r))
    /\ WF_vars(MainLoop)

NormNext == NLocate \/ NCatch \/ NFlatten \/ NAgain

NormSpec == NormInit /\ [][NormNext]_vars

(***************************************************************************)
(* Properties of the normalisation (NormSpec)                              *)
(***************************************************************************)
Located == n_pc \in {"located", "done", "again"}
Flattened == n_pc \in {"done", "again"}

\* the value of the first of keys that d has (d has one of them)
FirstPresent(d, keys) ==
    LET i == CHOOSE i \in 1..Len(keys) :
                 /\ HasKey(d, keys[i])
                 /\ \A j \in 1..(i - 1) : ~HasKey(d, keys[j])
    IN GetItem(d, keys[i])

HasAny(d, keys) == \E i \in 1..Len(keys) : HasKey(d, keys[i])

\* C1: for a mapping payload with a recognized key, the candidate is the
\* value of the first recognized key present, in the order of PossibleKeys,
\* whatever that value is (null included): no nested probe and no fallback
\* scan replaces it.
C1_FirstKeyWins ==
    (Located /\ IsDict(n_data) /\ HasAny(n_data, PossibleKeys))
        => n_cand = FirstPresent(n_data, PossibleKeys)

\* a payload [s1, ..., sk, record]: strings, then one mapping record
IsRecordPayload(v) ==
    /\ IsList(v) /\ Len(v[2]) >= 1
    /\ IsDict(v[2][Len(v[2])])
    /\ \A i \in 1..(Len(v[2]) - 1) : IsStr(v[2][i])

TheRecord(v) == v[2][Len(v[2])]

\* the strings before the record, then the one entry of the record
WithEntry(v, entry) ==
    [i \in 1..Len(v[2]) |-> IF i < Len(v[2]) THEN v[2][i][2] ELSE entry]

\* what Python takes as false
IsFalsy(v) ==
    v \in {PNone, PBool(FALSE), PInt(0), PStr(""), PList(<<>>), PDict(<<>>)}

\* entry is the string form of the first probed field of rec whose value
\* is Wanted, or of all of rec when no probed field has such a value
NamedBy(rec, entry, Wanted(_)) ==
    \/ \E i \in 1..Len(NameFields) :
          /\ Wanted(DictGet(rec, NameFields[i]))
          /\ \A j \in 1..(i - 1) : ~Wanted(DictGet(rec, NameFields[j]))
          /\ entry = PyStr(DictGet(rec, NameFields[i]))
    \/ /\ \A i \in 1..Len(NameFields) : ~Wanted(DictGet(rec, NameFields[i]))
       /\ entry = PyStr(rec)

\* C2 as stated: a mapping record in a sequence contributes exactly one
\* entry, the string form of its first probed field whose value is non-null
\* (the empty string, 0 and false included), or of the whole mapping when
\* every probed field is null or absent.
C2_FirstNonNullField ==
    (Flattened /\ IsRecordPayload(n_data))
        => \E entry \in {n_list[i] : i \in 1..Len(n_list)} :
              /\ n_list = WithEntry(n_data, entry)
              /\ NamedBy(TheRecord(n_data), entry, LAMBDA v : ~IsNone(v))

\* C2 amended: a mapping record in a sequence contributes exactly one entry,
\* the string form of its first probed field whose value is true in
\* Python's sense (not null, false, 0, the empty string or an empty
\* container), or of the whole mapping when no probed field has a true value.
C2_FirstTruthyField ==
    (Flattened /\ IsRecordPayload(n_data))
        => \E entry \in {n_list[i] : i \in 1..Len(n_list)} :
              /\ n_list = WithEntry(n_data, entry)
              /\ NamedBy(TheRecord(n_data), entry, LAMBDA v : ~IsFalsy(v))

\* a record whose first field is the empty string resolves to its next field
C2_Witness ==
    /\ n_pc = "done"
    /\ n_data = PList(<< PStr("B"),
                         PDict(<< <<"name", PBool(TRUE)>>,
                                  <<"breach", PStr("")>> >>) >>)
    /\ n_list = <<"B", "True">>

\* C3: every element of the normalized breach list is a non-empty string.
C3_NoEmptyName ==
    Flattened => \A i \in 1..Len(n_list) : n_list[i] /= "" /\ n_list[i] /= "None"

\* C4: when the first recognized key present is ExposedBreaches and its
\* value is a mapping holding one of the nested keys, the candidate is the
\* value of the first nested key present, not the enclosing mapping.
C4_NestedProbe ==
    (/\ Located /\ IsDict(n_data) /\ HasAny(n_data, PossibleKeys)
     /\ HasKey(n_data, "ExposedBreaches")
     /\ FirstPresent(n_data, PossibleKeys) = GetItem(n_data, "ExposedBreaches")
     /\ IsDict(GetItem(n_data, "ExposedBreaches"))
     /\ HasAny(GetItem(n_data, "ExposedBreaches"), NestedKeys))
        => n_cand = FirstPresent(GetItem(n_data, "ExposedBreaches"), NestedKeys)

RECURSIVE IsStrTree(_), Leaves(_)
\* a sequence whose leaves, at any depth, are all strings
IsStrTree(v) ==
    /\ IsList(v)
    /\ \A i \in 1..Len(v[2]) : IsStr(v[2][i]) \/ IsStrTree(v[2][i])

\* the leaves of a string or of a nested sequence of strings, left to right
Leaves(v) ==
    IF IsStr(v) THEN <<v[2]>>
    ELSE IF v[2] = <<>> THEN <<>>
    ELSE Leaves(Head(v[2])) \o Leaves(PList(Tail(v[2])))

\* C5: for a nested sequence of strings the breach list is the leaves from
\* left to right, repeats kept; flattening the breach list again changes
\* nothing.
C5_LeavesInOrder ==
    /\ (Flattened /\ IsStrTree(n_data)) => n_list = Leaves(n_data)
    /\ n_pc = "again" => n_list2 = n_list

\* a nested sequence of two strings, one of them twice
C5_Witness ==
    /\ n_pc = "again"
    /\ n_data = PList(<< PList(<< PStr("A"), PStr("B") >>), PStr("A") >>)
    /\ n_list = <<"A", "B", "A">>
    /\ n_list2 = <<"A", "B", "A">>

\* C7: for a mapping payload with no recognized key the candidate is the
\* first value, in the mapping's order, that is a sequence; with no such
\* value there is no candidate and the breach list is empty.
C7_FirstSequenceValue ==
    (Located /\ IsDict(n_data) /\ ~HasAny(n_data, PossibleKeys))
        => LET pairs == n_data[2] IN
           \/ \E i \in 1..Len(pairs) :
                 /\ IsList(pairs[i][2])
                 /\ \A j \in 1..(i - 1) : ~IsList(pairs[j][2])
                 /\ n_cand = pairs[i][2]
           \/ /\ \A i \in 1..Len(pairs) : ~IsList(pairs[i][2])
              /\ IsNone(n_cand)
              /\ Flattened => n_list = <<>>

\* two unrecognized keys, both with a sequence: the first one is taken
C7_Witness ==
    /\ n_pc = "done"
    /\ n_data = PDict(<< <<"unknownKey", PList(<<>>)>>, <<"other", ListAB>> >>)
    /\ n_cand = PList(<<>>)
    /\ n_list = <<>>

(***************************************************************************)
(* Properties of the application (Spec, LiveSpec)                          *)
(***************************************************************************)
\* request r's thread has ended and the main loop has run both its callbacks
Delivered(r) ==
    /\ thread[r].pc = "done"
    /\ \A i \in 1..Len(after) : after[i].req /= r

\* request r has started and is not yet delivered
InFlight(r) == thread[r].pc /= "idle" /\ ~Delivered(r)

\* C6: when _display_breach_results has run on a payload that is no
\* container (a number, a string, a boolean, null), the error of the
\* extraction was caught: the safe message is shown with no count, and
\* whatever the payload the handler never leaves an error state behind.
C6_FailSafe ==
    lastEvent.op = "display_breach_results"
        => /\ status \in {"safe", "warning"}
           /\ (~IsList(lastEvent.data) /\ ~IsDict(lastEvent.data))
                 => (status = "safe" /\ count_label = SafeText /\ warn_list = <<>>)

\* the string "data", of which a recognized key is a substring, was handled
C6_Witness ==
    /\ lastEvent.op = "display_breach_results"
    /\ lastEvent.data = PStr("data")
    /\ status = "safe"

\* C8: whenever the safe message is shown the breach list is hidden and
\* empty; whenever the warning is shown the visible list holds exactly
\* count rows, in the order of the breach list that produced the warning.
C8_DisplayConsistent ==
    /\ status = "safe" => (~list_visible /\ list_children = <<>>)
    /\ status = "warning"
          => /\ list_visible
             /\ count_label = CountText(Len(list_children))
             /\ list_children = [i \in 1..Len(warn_list) |-> ItemRow(i, warn_list[i])]

\* what a thread has scheduled so far is a prefix of: its result, then hide
ScheduledInOrder ==
    \A r \in Requests :
        /\ sched[r] \in {<<>>, <<"result">>, <<"result", "hide">>}
        /\ thread[r].pc = "done" => sched[r] = <<"result", "hide">>
        /\ \A i, j \in 1..Len(after) :
              (after[i].req = r /\ after[j].req = r /\ after[i].kind = "hide")
                 => j <= i

\* C9: every started request ends with exactly one result callback and then
\* the hide-loading callback scheduled, never in the other order, and both
\* are eventually run; so a shown progress bar is eventually hidden with
\* the button enabled again.
C9_EveryCheckEnds ==
    /\ []ScheduledInOrder
    /\ \A r \in Requests : (thread[r].pc = "request") ~> Delivered(r)
    /\ progress ~> (~progress /\ button = "normal")

\* a request that raised in requests.get has been delivered
C9_Witness ==
    /\ thread[1].pc = "done"
    /\ sched[1] = <<"result", "hide">>
    /\ Delivered(1)
    /\ lastEvent = [op |-> "hide_loading", req |-> 1, data |-> PNone]
    /\ ~progress /\ button = "normal"
    /\ status = "error"

\* C10: at most one request is in flight, and a result shown is that of the
\* request started last.
C10_OneInFlight ==
    /\ Cardinality({r \in Requests : InFlight(r)}) <= 1
    /\ lastEvent.op \in {"display_breach_results", "display_safe_result",
                         "display_error"} => lastEvent.req = nchecks

====
